---- MODULE Spec2Model ----
(***************************************************************************)
(* env-verifier (src/src/index.ts): verify / strictVerify map a schema of  *)
(* environment-variable names onto an environment, collect the missing     *)
(* variables as errors, record the paths wrapped by secret(), and attach a *)
(* redacting toString to the prototype of the resolved config.             *)
(*                                                                         *)
(* Representation.                                                         *)
(*   - A JavaScript string that the code splits on '.' (a path) is a       *)
(*     sequence of tokens: a key is one token, the separator is the token  *)
(*     ".".  Keys are dot-free and non-empty (spec.md section 9 leaves     *)
(*     keys containing '.' as an open question).  Text(p) is the string.   *)
(*   - A schema node is a record tagged by t: "env" (plain string leaf),   *)
(*     "tr" (transform tuple), "ins" (InsertValue), "sec" (SecretValue),   *)
(*     "obj" (nested object, kv = its entries in Object.keys order).       *)
(*   - A resolved value is a record tagged "str", "undef" or "obj".        *)
(*   - An environment is a function from the names it defines to strings.  *)
(***************************************************************************)
EXTENDS Naturals, Sequences, FiniteSets

VARIABLES proto, calls, rendered, redact

vars == <<proto, calls, rendered, redact>>

-----------------------------------------------------------------------------
(* Bounds of the model *)

\* total number of keys (at all depths) of a schema passed to the single call
MaxEntries == 3
\* total number of keys of a schema in a sequence of calls
MaxCallEntries == 1
\* number of verify / strictVerify calls in a sequence of calls
MaxCalls == 2
\* total number of keys of a config handed directly to the redactor
MaxRedactEntries == 3
\* length of a secret-path list handed directly to the redactor
MaxSecrets == 2

KeyNames == <<"a", "b">>
EnvNames == {"X", "Y"}
EnvValues == {"", "v"}

-----------------------------------------------------------------------------
(* Values *)

Str(s) == [t |-> "str", v |-> s]
Undefined == [t |-> "undef"]
Obj(kv) == [t |-> "obj", kv |-> kv]
Entry(k, n) == [k |-> k, n |-> n]

\* Object.keys(o): the own keys in insertion order
ObjectKeys(o) == [i \in 1..Len(o.kv) |-> o.kv[i].k]

HasKey(o, key) == \E i \in 1..Len(o.kv) : o.kv[i].k = key

\* o[key]; undefined when o has no such key
Get(o, key) ==
  IF HasKey(o, key)
  THEN o.kv[CHOOSE i \in 1..Len(o.kv) : o.kv[i].k = key].n
  ELSE Undefined

\* { ...o, [key]: n }: an existing key keeps its position, a new one is appended
SetKey(o, key, n) ==
  IF HasKey(o, key)
  THEN Obj([i \in 1..Len(o.kv) |-> IF o.kv[i].k = key THEN Entry(key, n) ELSE o.kv[i]])
  ELSE Obj(Append(o.kv, Entry(key, n)))

RECURSIVE Spread(_, _)
\* { ...a, ...b }
Spread(a, b) ==
  IF b.kv = <<>> THEN a
  ELSE Spread(SetKey(a, b.kv[1].k, b.kv[1].n), Obj(Tail(b.kv)))

\* JavaScript truthiness of a resolved value
Truthy(n) == n.t # "undef" /\ ~(n.t = "str" /\ n.v = "")

RECURSIVE Text(_)
\* the string a token sequence stands for
Text(p) == IF p = <<>> THEN "" ELSE p[1] \o Text(Tail(p))

RECURSIVE Join(_, _)
\* Array.prototype.join
Join(strs, sep) ==
  IF strs = <<>> THEN ""
  ELSE IF Len(strs) = 1 THEN strs[1]
  ELSE strs[1] \o sep \o Join(Tail(strs), sep)

\* Array.prototype.includes
Includes(seq, x) == \E i \in 1..Len(seq) : seq[i] = x

-----------------------------------------------------------------------------
(* Schema construction helpers *)

\* insert(value)
insert(value) == [t |-> "ins", v |-> value]
\* secret(value)
secret(value) == [t |-> "sec", in |-> value]
\* a plain string naming an environment variable
EnvKey(name) == [t |-> "env", v |-> name]
\* [envKeyName, transformFn]
TransformTuple(name, fn) == [t |-> "tr", v |-> name, fn |-> fn]

\* a caller's transform function: total, and its result shows its argument
TransformFn(fn, envValue) == Str(fn \o "(" \o envValue \o ")")

-----------------------------------------------------------------------------
(* Resolver *)

\* getEnvValueOrError with a fault: only an absent value is missing, the empty
\* string is returned as a value
getEnvValueOrErrorNoEmpty(env, subPath, key) ==
  IF key \notin DOMAIN env
  THEN [value |-> Undefined,
        errors |-> <<[message |-> "environment value " \o key
                        \o " is missing from config object at " \o Text(subPath)]>>]
  ELSE [value |-> Str(env[key]), errors |-> <<>>]

\* getEnvValueOrErrorCurried(env, subPath)(key)
getEnvValueOrError(env, subPath, key) ==
  IF key \notin DOMAIN env \/ env[key] = ""
  THEN [value |-> Undefined,
        errors |-> <<[message |-> "environment value " \o key
                        \o " is missing from config object at " \o Text(subPath)]>>]
  ELSE [value |-> Str(env[key]), errors |-> <<>>]

\* unwrapMaybeSecret(maybeSecret, path)
unwrapMaybeSecret(maybeSecret, path) ==
  IF maybeSecret.t = "sec"
  THEN [value |-> maybeSecret.in, secrets |-> <<path>>]
  ELSE [value |-> maybeSecret, secrets |-> <<>>]

\* reduceConf with a fault: the accumulated config is not spread into the result
reduceConfClobber(acc, item) ==
  [config |-> item.config,
   errors |-> acc.errors \o item.errors,
   secrets |-> acc.secrets \o item.secrets,
   invoked |-> acc.invoked \o item.invoked]

\* reduceConf(acc, [config, errors, secrets]); invoked is the log of the calls
\* made to transform functions, in order
reduceConf(acc, item) ==
  [config |-> Spread(acc.config, item.config),
   errors |-> acc.errors \o item.errors,
   secrets |-> acc.secrets \o item.secrets,
   invoked |-> acc.invoked \o item.invoked]

RECURSIVE recursiveVerify(_, _, _)

\* transformBranch with a fault: transformFn(envValue) without the envValue && guard
transformBranchAlways(value, env, subPath, key, secrets) ==
  LET r == getEnvValueOrError(env, subPath, value.v)
      arg == IF r.value.t = "undef" THEN "undefined" ELSE r.value.v
  IN [config |-> Obj(<<Entry(key, TransformFn(value.fn, arg))>>),
      errors |-> r.errors,
      secrets |-> secrets,
      invoked |-> <<[fn |-> value.fn, arg |-> arg, at |-> subPath]>>]

\* the transform branch of getMapConfigFunction
transformBranch(value, env, subPath, key, secrets) ==
  LET r == getEnvValueOrError(env, subPath, value.v)
      called == Truthy(r.value)
  IN [config |-> Obj(<<Entry(key, IF called THEN TransformFn(value.fn, r.value.v)
                                   ELSE r.value)>>),
      errors |-> r.errors,
      secrets |-> secrets,
      invoked |-> IF called THEN <<[fn |-> value.fn, arg |-> r.value.v, at |-> subPath]>>
                  ELSE <<>>]

\* the nested-object branch of getMapConfigFunction
nestedBranch(value, env, subPath, key, secrets) ==
  LET sub == recursiveVerify(value, env, subPath)
  IN [config |-> Obj(<<Entry(key, sub.config)>>),
      errors |-> sub.errors,
      secrets |-> sub.secrets,
      invoked |-> sub.invoked]

\* getMapConfigFunction({config, env, path})(key)
getMapConfigFunction(config, env, path, key) ==
  LET maybeSecret == Get(config, key)
      subPath == IF Len(path) = 0 THEN <<key>> ELSE path \o <<".", key>>
      u == unwrapMaybeSecret(maybeSecret, subPath)
      value == u.value
      secrets == u.secrets
  IN CASE value.t = "ins" ->
            [config |-> Obj(<<Entry(key, value.v)>>), errors |-> <<>>,
             secrets |-> secrets, invoked |-> <<>>]
       [] value.t = "tr" -> transformBranch(value, env, subPath, key, secrets)
       [] value.t = "env" ->
            LET r == getEnvValueOrError(env, subPath, value.v)
            IN [config |-> Obj(<<Entry(key, r.value)>>), errors |-> r.errors,
                secrets |-> secrets, invoked |-> <<>>]
       [] OTHER -> nestedBranch(value, env, subPath, key, secrets)

RECURSIVE ReduceFrom(_, _, _, _, _)
\* Object.keys(config).map(mapConf).reduce(reduceConf, acc), from key number i
ReduceFrom(acc, config, env, path, i) ==
  IF i > Len(config.kv) THEN acc
  ELSE ReduceFrom(reduceConf(acc, getMapConfigFunction(config, env, path, ObjectKeys(config)[i])),
                  config, env, path, i + 1)

\* recursiveVerify({config, env, path})
recursiveVerify(config, env, path) ==
  ReduceFrom([config |-> Obj(<<>>), errors |-> <<>>, secrets |-> <<>>, invoked |-> <<>>],
             config, env, path, 1)

-----------------------------------------------------------------------------
(* Redactor *)

SecretMarker == Str("[secret]")

\* secret.split('.').length > 1
IsNested(path) == Includes(path, ".")

RECURSIVE FilterNested(_, _)
\* secrets.filter(...) keeping the nested (want = TRUE) or the other paths
FilterNested(secrets, want) ==
  IF secrets = <<>> THEN <<>>
  ELSE (IF IsNested(secrets[1]) = want THEN <<secrets[1]>> ELSE <<>>)
         \o FilterNested(Tail(secrets), want)

\* seperateSecretsByNestLevel(secrets)
seperateSecretsByNestLevel(secrets) ==
  LET nestedSecrets == FilterNested(secrets, TRUE)
      nonNested == FilterNested(secrets, FALSE)
  IN [nonNested |-> nonNested, nestedSecrets |-> nestedSecrets]

\* seperateParentFromChildren(path): path.split(/\.(.+)/), for a path holding a '.'
seperateParentFromChildren(path) ==
  LET dot == CHOOSE i \in 1..Len(path) :
               path[i] = "." /\ \A j \in 1..(i - 1) : path[j] # "."
  IN [parent |-> Text(SubSeq(path, 1, dot - 1)),
      children |-> SubSeq(path, dot + 1, Len(path))]

RECURSIVE groupNestedSecrets(_, _)
\* deepSecrets.map(seperateParentFromChildren).reduce(..., acc): an object from
\* each parent key to the list of its children paths
groupNestedSecrets(acc, deepSecrets) ==
  IF deepSecrets = <<>> THEN acc
  ELSE LET pc == seperateParentFromChildren(deepSecrets[1])
           list == IF HasKey(acc, pc.parent)
                   THEN Append(Get(acc, pc.parent), pc.children)
                   ELSE <<pc.children>>
       IN groupNestedSecrets(SetKey(acc, pc.parent, list), Tail(deepSecrets))

RECURSIVE sanatizeSecretKeys(_, _)
\* secretKeys.reduce((acc, key) => ({...acc, [key]: '[secret]'}), acc)
sanatizeSecretKeys(acc, secretKeys) ==
  IF secretKeys = <<>> THEN acc
  ELSE sanatizeSecretKeys(SetKey(acc, secretKeys[1], SecretMarker), Tail(secretKeys))

RECURSIVE SecretKeysOf(_, _)
\* Object.keys(config).filter(configKey => secretsAtThisLevel.includes(configKey))
SecretKeysOf(keys, secretsAtThisLevel) ==
  IF keys = <<>> THEN <<>>
  ELSE (IF Includes(secretsAtThisLevel, <<keys[1]>>) THEN <<keys[1]>> ELSE <<>>)
         \o SecretKeysOf(Tail(keys), secretsAtThisLevel)

\* what Object.keys and the spread see of a value that is no object: undefined
\* makes Object.keys throw a TypeError; a string spreads into its characters
\* (none of which is a key of KeyNames)
AsObject(config) ==
  CASE config.t = "obj" -> config
    [] config.t = "chars" -> Obj(<<>>)
    [] config.t = "str" -> Obj(<<>>)

Threw(n) == n.t = "TypeError"

RECURSIVE recursiveToString(_, _)
RECURSIVE sanatizeNested(_, _, _, _)

RECURSIVE sanatizeNestedWhole(_, _, _, _)
\* sanatizeNested with a fault: the recursion is handed config, not config[parent]
sanatizeNestedWhole(acc, grouped, config, i) ==
  IF i > Len(grouped.kv) THEN acc
  ELSE LET parent == grouped.kv[i].k
           sub == recursiveToString(grouped.kv[i].n, config)
       IN IF Threw(sub) THEN sub
          ELSE sanatizeNestedWhole(SetKey(acc, parent, sub), grouped, config, i + 1)

\* Object.keys(groupedNestedSecrets).reduce(..., acc), from parent number i
sanatizeNested(acc, grouped, config, i) ==
  IF i > Len(grouped.kv) THEN acc
  ELSE LET parent == grouped.kv[i].k
           sub == recursiveToString(grouped.kv[i].n, Get(config, parent))
       IN IF Threw(sub) THEN sub
          ELSE sanatizeNested(SetKey(acc, parent, sub), grouped, config, i + 1)

\* the object recursiveToString returns: { ...config, ...sanatizedSecrets,
\* ...nestedSanatizedSecrets }
combineSanatized(config, sanatizedSecrets, nestedSanatizedSecrets) ==
  Spread(Spread(config, sanatizedSecrets), nestedSanatizedSecrets)

\* recursiveToString(secrets, config)
recursiveToString(secrets, config) ==
  IF config.t \in {"undef", "TypeError"} THEN [t |-> "TypeError"]
  ELSE
    LET levels == seperateSecretsByNestLevel(secrets)
        own == AsObject(config)
        secretKeys == SecretKeysOf(ObjectKeys(own), levels.nonNested)
        groupedNestedSecrets == groupNestedSecrets(Obj(<<>>), levels.nestedSecrets)
        nestedSanatizedSecrets == sanatizeNested(Obj(<<>>), groupedNestedSecrets, own, 1)
        sanatizedSecrets == sanatizeSecretKeys(Obj(<<>>), secretKeys)
    IN IF Threw(nestedSanatizedSecrets) THEN nestedSanatizedSecrets
       ELSE IF config.t = "str" /\ secretKeys = <<>> /\ groupedNestedSecrets.kv = <<>>
       THEN [t |-> "chars", v |-> config.v]
       ELSE IF config.t = "chars" /\ secretKeys = <<>> /\ groupedNestedSecrets.kv = <<>>
       THEN config
       ELSE combineSanatized(own, sanatizedSecrets, nestedSanatizedSecrets)

-----------------------------------------------------------------------------
(* Serialization *)

RECURSIVE JSONRoundTrip(_)
\* JSON.parse(JSON.stringify(config)): a key whose value is undefined is dropped
JSONRoundTrip(n) ==
  IF n.t # "obj" THEN n
  ELSE LET kept == SelectSeq(n.kv, LAMBDA e : e.n.t # "undef")
       IN Obj([i \in 1..Len(kept) |-> Entry(kept[i].k, JSONRoundTrip(kept[i].n))])

RECURSIVE JSONStringify(_, _)
\* JSON.stringify(n, null, 2), the value starting at indentation indent
JSONStringify(n, indent) ==
  CASE n.t = "str" -> "\"" \o n.v \o "\""
    [] n.t = "obj" /\ n.kv = <<>> -> "{}"
    [] n.t = "obj" /\ n.kv # <<>> ->
         LET inner == indent \o "  "
             items == [i \in 1..Len(n.kv) |->
                         inner \o "\"" \o n.kv[i].k \o "\": "
                           \o JSONStringify(n.kv[i].n, inner)]
         IN "{\n" \o Join(items, ",\n") \o "\n" \o indent \o "}"

\* the sanatizedConfig of toStringCurried
sanatizedConfig(secrets, config) == recursiveToString(secrets, JSONRoundTrip(config))

\* toStringCurried(secrets, config)()
toStringCurried(secrets, config) == JSONStringify(sanatizedConfig(secrets, config), "")

\* Object.prototype.toString as the runtime defines it
NativeToString == [bound |-> FALSE]

\* what config.toString() returns: every resolved config is a plain object, so
\* the call is answered by Object.prototype.toString
InvokeToString(binding) ==
  IF binding.bound THEN toStringCurried(binding.secrets, binding.config)
  ELSE "[object Object]"

-----------------------------------------------------------------------------
(* Public entry points *)

\* the binding of Object.prototype.toString after verify's lines 229-232
attachToString(binding, secrets, builtConfig) ==
  IF Len(secrets) > 0
  THEN [bound |-> TRUE, secrets |-> secrets, config |-> builtConfig]
  ELSE binding

\* verify(config, env); toString is the binding of Object.prototype.toString it leaves
verify(config, env, binding) ==
  LET r == recursiveVerify(config, env, <<>>)
  IN [config |-> r.config,
      errors |-> [i \in 1..Len(r.errors) |-> r.errors[i].message],
      toString |-> attachToString(binding, r.secrets, r.config),
      secrets |-> r.secrets,
      invoked |-> r.invoked]

\* strictVerify with a fault: a single error does not raise
strictVerifyMany(config, env, binding) ==
  LET r == verify(config, env, binding)
  IN IF Len(r.errors) > 1
     THEN [threw |-> TRUE,
           message |-> "Missing configuration values: " \o Join(r.errors, "\n"),
           toString |-> r.toString, secrets |-> r.secrets, invoked |-> r.invoked]
     ELSE [threw |-> FALSE, config |-> r.config,
           toString |-> r.toString, secrets |-> r.secrets, invoked |-> r.invoked]

\* strictVerify(config, env); secrets and invoked are those of its call of verify
strictVerify(config, env, binding) ==
  LET r == verify(config, env, binding)
  IN IF Len(r.errors) > 0
     THEN [threw |-> TRUE,
           message |-> "Missing configuration values: " \o Join(r.errors, "\n"),
           toString |-> r.toString, secrets |-> r.secrets, invoked |-> r.invoked]
     ELSE [threw |-> FALSE, config |-> r.config,
           toString |-> r.toString, secrets |-> r.secrets, invoked |-> r.invoked]

-----------------------------------------------------------------------------
(* Inputs *)

RECURSIVE Size(_)
RECURSIVE SumSizes(_)
\* the number of keys of a node, at all depths
Size(n) ==
  CASE n.t = "obj" -> Len(n.kv) + SumSizes(n.kv)
    [] n.t = "sec" -> Size(n.in)
    [] OTHER -> 0
SumSizes(kv) == IF kv = <<>> THEN 0 ELSE Size(kv[1].n) + SumSizes(Tail(kv))

RECURSIVE KVs(_, _, _, _)
\* the entry lists of at most n keys in all, over the keys KeyNames[from..] in
\* that order, with leaves from leaves; wrap: nodes may be wrapped by secret()
NodesOf(leaves, wrap, n) ==
  LET plain == leaves \cup {Obj(kv) : kv \in KVs(leaves, wrap, n, 1)}
  IN plain \cup (IF wrap THEN {secret(x) : x \in plain} ELSE {})
KVs(leaves, wrap, n, from) ==
  {<<>>} \cup
  (IF n = 0 THEN {}
   ELSE UNION { UNION { {<<Entry(KeyNames[i], node)>> \o rest :
                           rest \in KVs(leaves, wrap, n - 1 - Size(node), i + 1)} :
                        node \in NodesOf(leaves, wrap, n - 1) } :
                i \in from..Len(KeyNames) })

SchemaLeaves == {EnvKey("X"), TransformTuple("Y", "f"), insert(Str("lit"))}

\* the schemas of a single call, and of a call in a sequence of calls
Schemas == {Obj(kv) : kv \in KVs(SchemaLeaves, TRUE, MaxEntries, 1)}
CallSchemas == {Obj(kv) : kv \in KVs(SchemaLeaves, TRUE, MaxCallEntries, 1)}

\* the environments: each name is absent, empty or set
Envs == UNION {[D -> EnvValues] : D \in SUBSET EnvNames}

-----------------------------------------------------------------------------
(* The program: calls of verify and strictVerify, and calls of toString on a *)
(* config a call returned                                                    *)

NoRender == [of |-> 0, text |-> ""]
Idle == [step |-> 0]

Init ==
  /\ proto = NativeToString
  /\ calls = <<>>
  /\ rendered = NoRender
  /\ redact = Idle

\* r: what the call returns, evaluated once
Verify(schema, env) ==
  \E r \in {verify(schema, env, proto)} :
     /\ calls' = Append(calls, [schema |-> schema, env |-> env, strict |-> FALSE,
                                threw |-> FALSE, message |-> "",
                                config |-> r.config, errors |-> r.errors,
                                secrets |-> r.secrets, invoked |-> r.invoked])
     /\ proto' = r.toString
     /\ UNCHANGED <<rendered, redact>>

StrictVerify(schema, env) ==
  \E r \in {strictVerify(schema, env, proto)} :
     /\ calls' = Append(calls, [schema |-> schema, env |-> env, strict |-> TRUE,
                                threw |-> r.threw,
                                message |-> IF r.threw THEN r.message ELSE "",
                                config |-> IF r.threw THEN Undefined ELSE r.config,
                                errors |-> <<>>,
                                secrets |-> r.secrets, invoked |-> r.invoked])
     /\ proto' = r.toString
     /\ UNCHANGED <<rendered, redact>>

\* config.toString() on the config call i returned
ToString(i) ==
  /\ ~calls[i].threw
  /\ rendered' = [of |-> i, text |-> InvokeToString(proto)]
  /\ UNCHANGED <<proto, calls, redact>>

\* a program that makes one call
Next ==
  \/ /\ Len(calls) = 0
     /\ \E schema \in Schemas, env \in Envs :
           \/ Verify(schema, env)
           \/ StrictVerify(schema, env)
  \/ \E i \in 1..Len(calls) : ToString(i)

Spec == Init /\ [][Next]_vars

\* a program that makes a sequence of calls
NextCalls ==
  \/ /\ Len(calls) < MaxCalls
     /\ \E schema \in CallSchemas, env \in Envs :
           \/ Verify(schema, env)
           \/ StrictVerify(schema, env)
  \/ \E i \in 1..Len(calls) : ToString(i)

SpecCalls == Init /\ [][NextCalls]_vars

-----------------------------------------------------------------------------
(* The redactor on its own: recursiveToString applied to a list of secret   *)
(* paths and a config, and applied again to its own result                  *)

RECURSIVE PathsOf(_, _)
\* the dotted paths of the keys of a config, at all depths
PathsOf(config, path) ==
  IF config.t # "obj" THEN {}
  ELSE UNION { LET subPath == IF Len(path) = 0 THEN <<config.kv[i].k>>
                              ELSE path \o <<".", config.kv[i].k>>
               IN {subPath} \cup PathsOf(config.kv[i].n, subPath) :
               i \in 1..Len(config.kv) }

RedactLeaves == {Str("v"), Str("w")}
RedactConfigs == {Obj(kv) : kv \in KVs(RedactLeaves, FALSE, MaxRedactEntries, 1)}

\* the lists of at most MaxSecrets paths of keys of the config
SecretLists(config) ==
  UNION {[1..n -> PathsOf(config, <<>>)] : n \in 0..MaxSecrets}

InitRedact ==
  /\ proto = NativeToString
  /\ calls = <<>>
  /\ rendered = NoRender
  /\ \E config \in RedactConfigs : \E secrets \in SecretLists(config) :
       redact = [step |-> 1, secrets |-> secrets, config |-> config, out |-> <<>>]

Redact ==
  /\ redact.step = 1
  /\ redact' = [redact EXCEPT !.step = 2,
                              !.out = <<recursiveToString(redact.secrets, redact.config)>>]
  /\ UNCHANGED <<proto, calls, rendered>>

RedactAgain ==
  /\ redact.step = 2
  /\ redact' = [redact EXCEPT !.step = 3,
                              !.out = Append(@, recursiveToString(redact.secrets, redact.out[1]))]
  /\ UNCHANGED <<proto, calls, rendered>>

NextRedact == Redact \/ RedactAgain

SpecRedact == InitRedact /\ [][NextRedact]_vars

-----------------------------------------------------------------------------
(* What the claims talk about, stated on the schema and not on the resolver *)

\* the node a secret() wraps, or the node itself
Unwrapped(n) == IF n.t = "sec" THEN n.in ELSE n

RECURSIVE LeavesOf(_, _, _)
\* the leaves of a schema: the keys leading to each, the leaf, and whether it is
\* wrapped by secret() or lies inside an object wrapped by secret()
LeavesOf(schema, keys, inSecret) ==
  UNION { LET n == schema.kv[i].n
              at == Append(keys, schema.kv[i].k)
              sec == inSecret \/ n.t = "sec"
          IN IF Unwrapped(n).t = "obj" THEN LeavesOf(Unwrapped(n), at, sec)
             ELSE {[keys |-> at, leaf |-> Unwrapped(n), secret |-> sec]} :
          i \in 1..Len(schema.kv) }

RECURSIVE SecretNodesOf(_, _)
\* the key chains of the nodes wrapped by secret(), in schema traversal order
SecretNodesOf(schema, keys) ==
  IF schema.kv = <<>> THEN <<>>
  ELSE LET n == schema.kv[1].n
           at == Append(keys, schema.kv[1].k)
       IN (IF n.t = "sec" THEN <<at>> ELSE <<>>)
            \o (IF Unwrapped(n).t = "obj" THEN SecretNodesOf(Unwrapped(n), at) ELSE <<>>)
            \o SecretNodesOf(Obj(Tail(schema.kv)), keys)

RECURSIVE Dotted(_)
\* the dotted path of a key chain, as a path of tokens
Dotted(keys) ==
  IF Len(keys) = 1 THEN keys ELSE <<keys[1], ".">> \o Dotted(Tail(keys))

RECURSIVE DottedText(_)
\* the dotted path of a key chain, as text
DottedText(keys) ==
  IF Len(keys) = 1 THEN keys[1] ELSE keys[1] \o "." \o DottedText(Tail(keys))

RECURSIVE Lookup(_, _)
\* the value a key chain leads to in a config; undefined when it leads nowhere
Lookup(config, keys) ==
  IF keys = <<>> THEN config
  ELSE IF config.t # "obj" THEN Undefined
  ELSE Lookup(Get(config, keys[1]), Tail(keys))

Missing(env, name) == name \notin DOMAIN env \/ env[name] = ""

\* how often x occurs in seq
Count(seq, x) == Cardinality({i \in 1..Len(seq) : seq[i] = x})

Prefixes(keys) == {SubSeq(keys, 1, n) : n \in 1..Len(keys)}

Returned(i) == i \in 1..Len(calls) /\ ~calls[i].threw

-----------------------------------------------------------------------------
(* Claims on a single call (Spec) *)

RECURSIVE SameShape(_, _, _)
\* the config has exactly the keys of the schema, at this depth and below, and a
\* plain or transform leaf whose variable is missing has its key, with undefined
SameShape(schema, env, config) ==
  /\ config.t = "obj"
  /\ Len(config.kv) = Len(schema.kv)
  /\ {config.kv[i].k : i \in 1..Len(config.kv)} = {schema.kv[i].k : i \in 1..Len(schema.kv)}
  /\ \A i \in 1..Len(schema.kv) :
       LET n == Unwrapped(schema.kv[i].n)
           c == Get(config, schema.kv[i].k)
       IN CASE n.t = "obj" -> SameShape(n, env, c)
            [] n.t \in {"env", "tr"} -> Missing(env, n.v) => c = Undefined
            [] OTHER -> TRUE

\* C2: the config a call returns has, at every nesting depth, exactly the key
\* set of the schema at that depth; a leaf whose environment variable is missing
\* or empty still has its key, with the value undefined.
C2_ShapePreserved ==
  \A i \in 1..Len(calls) :
    Returned(i) => SameShape(calls[i].schema, calls[i].env, calls[i].config)

\* C2 witness: verify returned a config for a schema with two top-level keys,
\* one of them a nested object holding a leaf whose variable is missing.
C2_Witness ==
  \E i \in 1..Len(calls) :
    /\ Returned(i) /\ ~calls[i].strict
    /\ Len(calls[i].schema.kv) = 2
    /\ \E l \in LeavesOf(calls[i].schema, <<>>, FALSE) :
         /\ Len(l.keys) = 2
         /\ l.leaf.t = "env"
         /\ Missing(calls[i].env, l.leaf.v)
         /\ HasKey(Lookup(calls[i].config, <<l.keys[1]>>), l.keys[2])
         /\ Lookup(calls[i].config, l.keys) = Undefined

\* the message the errors list holds for a leaf reading name at the key chain keys
MissingMessage(name, keys) ==
  "environment value " \o name \o " is missing from config object at " \o DottedText(keys)

\* C3: for every plain-string or transform leaf, at any depth: if its variable
\* is absent or empty, verify's errors hold exactly one message for it, naming
\* the variable and the leaf's dotted path, and its resolved value is undefined;
\* if the variable is set, the errors hold no message for it.  All leaves are
\* covered, whatever happened at their siblings.
C3_MissingLeafReportedOnce ==
  \A i \in 1..Len(calls) :
    ~calls[i].strict =>
      \A l \in LeavesOf(calls[i].schema, <<>>, FALSE) :
        l.leaf.t \in {"env", "tr"} =>
          LET n == Count(calls[i].errors, MissingMessage(l.leaf.v, l.keys))
          IN IF Missing(calls[i].env, l.leaf.v)
             THEN n = 1 /\ Lookup(calls[i].config, l.keys) = Undefined
             ELSE n = 0

\* C3 witness: verify reported two missing leaves: a transform leaf at depth two
\* whose variable is the empty string, and a later sibling of its parent whose
\* variable is absent.
C3_Witness ==
  \E i \in 1..Len(calls) :
    /\ ~calls[i].strict
    /\ Len(calls[i].errors) = 2
    /\ \E l \in LeavesOf(calls[i].schema, <<>>, FALSE) :
         /\ Len(l.keys) = 2 /\ l.leaf.t = "tr"
         /\ l.leaf.v \in DOMAIN calls[i].env /\ calls[i].env[l.leaf.v] = ""
    /\ \E l \in LeavesOf(calls[i].schema, <<>>, FALSE) :
         /\ Len(l.keys) = 1 /\ l.leaf.t = "env"
         /\ l.leaf.v \notin DOMAIN calls[i].env

\* C4: strictVerify raises exactly when verify returns errors; the message is
\* 'Missing configuration values: ' followed by verify's messages joined by
\* newlines, in order; when it does not raise it returns verify's config.
C4_StrictRaisesIffErrors ==
  \A i \in 1..Len(calls) :
    calls[i].strict =>
      LET v == verify(calls[i].schema, calls[i].env, NativeToString)
      IN /\ calls[i].threw <=> (v.errors # <<>>)
         /\ calls[i].threw =>
              calls[i].message = "Missing configuration values: " \o Join(v.errors, "\n")
         /\ ~calls[i].threw => calls[i].config = v.config

\* C4 witness: strictVerify raised for a schema with two missing leaves, one of
\* them nested.
C4_Witness ==
  \E i \in 1..Len(calls) :
    /\ calls[i].strict /\ calls[i].threw
    /\ Len(verify(calls[i].schema, calls[i].env, NativeToString).errors) = 2
    /\ \E l \in LeavesOf(calls[i].schema, <<>>, FALSE) :
         Len(l.keys) = 2 /\ l.leaf.t = "env" /\ Missing(calls[i].env, l.leaf.v)

\* the calls of transform functions made for the leaf at the key chain keys
InvokedAt(i, keys) ==
  SelectSeq(calls[i].invoked, LAMBDA c : c.at = Dotted(keys))

\* C7: for every transform leaf: when its variable is absent or empty the
\* transform function is not called and the resolved value is undefined; when it
\* is set the function is called exactly once, with the raw string, and the
\* resolved value is its result.
C7_TransformOnlyOnValue ==
  \A i \in 1..Len(calls) :
    \A l \in LeavesOf(calls[i].schema, <<>>, FALSE) :
      l.leaf.t = "tr" =>
        IF Missing(calls[i].env, l.leaf.v)
        THEN /\ InvokedAt(i, l.keys) = <<>>
             /\ Returned(i) => Lookup(calls[i].config, l.keys) = Undefined
        ELSE /\ InvokedAt(i, l.keys) =
                  <<[fn |-> l.leaf.fn, arg |-> calls[i].env[l.leaf.v], at |-> Dotted(l.keys)]>>
             /\ Returned(i) =>
                  Lookup(calls[i].config, l.keys)
                    = TransformFn(l.leaf.fn, calls[i].env[l.leaf.v])

\* C7 witness: a call resolved two transform leaves whose variable is set, and
\* called the transform function once for each.
C7_Witness ==
  \E i \in 1..Len(calls) :
    /\ Returned(i)
    /\ Len(calls[i].invoked) = 2
    /\ \E l \in LeavesOf(calls[i].schema, <<>>, FALSE) :
         /\ l.leaf.t = "tr" /\ Len(l.keys) = 2
         /\ ~Missing(calls[i].env, l.leaf.v)

\* the tree whose serialization toString() returns while a redacting toString
\* is attached
RenderedTree == sanatizedConfig(proto.secrets, proto.config)

\* C1: the text toString() returns for the config of a call never shows the
\* resolved value of a leaf that is wrapped by secret() or lies inside an object
\* wrapped by secret(): the leaf, or an object around it, shows "[secret]".
C1_SecretsNeverRendered ==
  \A i \in 1..Len(calls) :
    (rendered.of = i /\ proto.bound) =>
      /\ rendered.text = JSONStringify(RenderedTree, "")
      /\ \A l \in LeavesOf(calls[i].schema, <<>>, FALSE) :
           (l.secret /\ Lookup(calls[i].config, l.keys) # Undefined) =>
             \E q \in Prefixes(l.keys) : Lookup(RenderedTree, q) = SecretMarker

\* C9: the secret-path list of the resolver holds exactly the dotted paths of
\* the nodes wrapped by secret(), each once, in schema traversal order; a
\* secret() around a nested object contributes the object's own path.
C9_SecretPathsAreSecretNodes ==
  \A i \in 1..Len(calls) :
    LET nodes == SecretNodesOf(calls[i].schema, <<>>)
    IN calls[i].secrets = [j \in 1..Len(nodes) |-> Dotted(nodes[j])]

-----------------------------------------------------------------------------
(* Claims on a sequence of calls (SpecCalls) *)

\* C5: toString() on the config of a call whose schema holds no secret() never
\* returns redacted text of toStringCurried: it returns what the runtime's own
\* toString returns, whatever calls were made before.
C5_NoSecretNoRedactedText ==
  \A i \in 1..Len(calls) :
    (rendered.of = i /\ SecretNodesOf(calls[i].schema, <<>>) = <<>>) =>
      rendered.text = InvokeToString(NativeToString)

\* C10: toString() on the config of a call that recorded secret paths returns
\* the redacted serialization of that call's own config under that call's own
\* secret paths, whatever calls were made after it.
C10_RenderIsOwnConfig ==
  \A i \in 1..Len(calls) :
    (rendered.of = i /\ calls[i].secrets # <<>>) =>
      rendered.text = toStringCurried(calls[i].secrets, calls[i].config)

-----------------------------------------------------------------------------
(* Claims on the redactor (SpecRedact) *)

\* some path of the list is the dotted path of the key chain or of an ancestor
Covered(secrets, keys) ==
  \E q \in Prefixes(keys) : Includes(secrets, Dotted(q))

\* C6: in the result of recursiveToString a value is replaced by "[secret]" if
\* and only if its dotted path, or the path of an ancestor, is in the list; here
\* for the string values: one under a listed path is behind a "[secret]", every
\* other one is returned unchanged.
C6_RedactedIffListed ==
  redact.step >= 2 =>
    \A l \in LeavesOf(redact.config, <<>>, FALSE) :
      IF Covered(redact.secrets, l.keys)
      THEN \E q \in Prefixes(l.keys) : Lookup(redact.out[1], q) = SecretMarker
      ELSE Lookup(redact.out[1], l.keys) = l.leaf

\* C8: recursiveToString(S, recursiveToString(S, C)) = recursiveToString(S, C).
C8_RedactIdempotent ==
  redact.step = 3 => redact.out[2] = redact.out[1]

\* C8 witness: the redactor was applied twice with a list holding a nested path
\* and a path of the top level, and the first application changed the config.
C8_Witness ==
  /\ redact.step = 3
  /\ \E j \in 1..Len(redact.secrets) : IsNested(redact.secrets[j])
  /\ \E j \in 1..Len(redact.secrets) : ~IsNested(redact.secrets[j])
  /\ redact.out[1] # redact.config
  /\ Lookup(redact.out[1], <<"a", "b">>) = SecretMarker

====
